---- MODULE Spec2Model ----
(***************************************************************************)
(* vaultxfer: the atomic transfer engine (atomic_upload, atomic_download)  *)
(* and the sync planner (sync_push, sync_pull, sync_bidirectional) of      *)
(* src/vaultxfer/transfer.py, as a state machine over a local and a remote *)
(* file tree.                                                              *)
(*                                                                         *)
(* A path is a sequence of one-character strings ("/r/a.tmp" is            *)
(* <<"/","r","/","a",".","t","m","p">>), so that basename, dirname, join,  *)
(* the ".tmp" / ".remote" suffixes and glob matching are computed on the   *)
(* characters as the code computes them.  A file content is a sequence of  *)
(* chunks; a transfer writes it one chunk at a time.                       *)
(***************************************************************************)
EXTENDS Integers, Sequences, FiniteSets, TLC

\* ------------------------------------------------------------------ bounds

\* Longest file content, in chunks, of the single-transfer specification.
MaxLen == 2

\* Longest include list and longest exclude list of a sync run.
MaxPats == 1

\* Most calls the transport fails on its own during one transfer or round trip.
MaxFaults == 3

\* Most calls the transport fails on its own during a sync run.
MaxSyncFaults == 2

\* Most path keys of the two trees of a pull or a bidirectional sync.
MaxKeys == 2

\* Distance of the third scanned modification time beyond the tolerance.
MTimeStep == 1

\* transfer.py:226  abs(ltime - rtime) <= 5
Tolerance == 5

\* -------------------------------------------------------- os.path, pathlib

SLASH == "/"

TmpSuffix == <<".", "t", "m", "p">>

RemoteSuffix == <<".", "r", "e", "m", "o", "t", "e">>

Last(s) == s[Len(s)]

EndsWith(s, suf) ==
    /\ Len(s) >= Len(suf)
    /\ SubSeq(s, Len(s) - Len(suf) + 1, Len(s)) = suf

StartsWith(s, pre) ==
    /\ Len(s) >= Len(pre)
    /\ SubSeq(s, 1, Len(pre)) = pre

\* str.rfind("/") + 1: the index of the last separator, 0 when there is none.
LastSlash(p) ==
    LET idx == {i \in 1..Len(p) : p[i] = SLASH}
    IN  IF idx = {} THEN 0 ELSE CHOOSE i \in idx : \A j \in idx : j <= i

\* str.rstrip("/")
RECURSIVE RStripSlash(_)
RStripSlash(p) ==
    IF p # <<>> /\ Last(p) = SLASH THEN RStripSlash(SubSeq(p, 1, Len(p) - 1)) ELSE p

\* posixpath.basename
Basename(p) == SubSeq(p, LastSlash(p) + 1, Len(p))

\* posixpath.dirname: the head up to the last separator, its trailing
\* separators stripped unless it consists of separators only.
Dirname(p) ==
    LET head == SubSeq(p, 1, LastSlash(p))
    IN  IF head # <<>> /\ (\E i \in 1..Len(head) : head[i] # SLASH)
        THEN RStripSlash(head)
        ELSE head

\* posixpath.join of two components
Join(a, b) ==
    IF b # <<>> /\ b[1] = SLASH THEN b
    ELSE IF a = <<>> \/ Last(a) = SLASH THEN a \o b
    ELSE a \o <<SLASH>> \o b

\* posixpath.relpath(path, start) for a path below start; a path that is not
\* below start comes out with a leading "..", as relpath makes it.
RelPath(path, start) ==
    LET s == RStripSlash(start)
    IN  IF StartsWith(path, s \o <<SLASH>>)
        THEN SubSeq(path, Len(s) + 2, Len(path))
        ELSE <<".", ".", SLASH>> \o path

\* pathlib.PurePosixPath(p).parents, deepest first, as strings: every proper
\* ancestor, ending with "/" for an absolute path and "." for a relative one.
RECURSIVE Parents(_)
Parents(p) ==
    LET d == Dirname(p)
    IN  IF d = p \/ p = <<".">> THEN <<>>
        ELSE IF d = <<>> THEN << <<".">> >>
        ELSE <<d>> \o Parents(d)

\* The directories atomic_upload's loop over Path(remote_dir).parts passes to
\* mkdir, shallowest first: os.path.join of the parts so far.
RECURSIVE PartsPrefixes(_)
PartsPrefixes(d) ==
    IF d = <<>> \/ d = <<".">> THEN <<>>
    ELSE LET up == Dirname(d)
         IN  IF up = d THEN <<d>> ELSE PartsPrefixes(up) \o <<d>>

Reverse(s) == [i \in 1..Len(s) |-> s[Len(s) + 1 - i]]

\* ------------------------------------------------------------------ fnmatch

\* fnmatch.fnmatch(name, pat) for patterns of literal characters, "?" and
\* "*": the whole name must match, and "*" also matches the separator.
RECURSIVE Fnmatch(_, _)
Fnmatch(name, pat) ==
    IF pat = <<>> THEN name = <<>>
    ELSE IF pat[1] = "*"
         THEN \/ Fnmatch(name, Tail(pat))
              \/ (name # <<>> /\ Fnmatch(Tail(name), pat))
    ELSE /\ name # <<>>
         /\ (pat[1] = "?" \/ pat[1] = name[1])
         /\ Fnmatch(Tail(name), Tail(pat))

\* transfer.py:321-333  the Pattern Filter as dry_run_sync_push computes it:
\* a pattern matches the basename or the full relative path; with include
\* patterns one of them must match, and a match of an exclude pattern rejects.
Included(rel_path, inc, exc_) ==
    LET fname == Basename(rel_path)
        hit(pats) == \E i \in 1..Len(pats) :
                        Fnmatch(fname, pats[i]) \/ Fnmatch(rel_path, pats[i])
    IN  /\ inc # <<>> => hit(inc)
        /\ exc_ # <<>> => ~hit(exc_)

\* any(... for pat in pats) over the basename only (sync_pull, sync_bidirectional)
AnyBasename(fname, pats) ==
    \E i \in 1..Len(pats) : Fnmatch(fname, pats[i])

\* ------------------------------------------------------------------- state

VARIABLES
    lfs,        \* local files: path -> content
    ldirs,      \* local directories
    rfs,        \* remote files: absolute path -> content
    rdirs,      \* remote directories (absolute paths)
    cwd,        \* working directory of the transport session, <<>> when unset
    budget,     \* how many more calls the transport may fail on its own
    op,         \* the entry point that is running
    denied,     \* directories, local or remote, that cannot be enumerated
    pc,         \* the position in it
    include,    \* include patterns (a list)
    exclude,    \* exclude patterns (a list)
    lmap,       \* local Tree Mapping: path key -> mtime
    rmap,       \* remote Tree Mapping: path key -> mtime
    todo,       \* keys the loop of the sync run has not visited yet
    order,      \* keys in the order the loop visited them
    run,        \* number of the sync run (a push is run twice)
    rroot,      \* remote_dir, the remote root the planner was given
    mtime,      \* modification times a scan reads: [l: path -> time, r: path -> time]
    src,        \* atomic_upload: local_path;  atomic_download: remote_path
    dst,        \* atomic_upload: remote_path; atomic_download: local_path (resolved)
    off,        \* chunks written by the running put/get, -1 before it opens
    branch,     \* atomic_upload: "normal", "retry" or "fallback"
    exc,        \* the exception being handled, "" when none
    calls,      \* transport and os calls of the running transfer: <<name, path, ok>>
    issued,     \* transfers the planner has started: <<direction, key, run or target>>
    printed,    \* lines written to the user: <<kind, path>>
    lwrites,    \* local paths a call has written, replaced or removed
    faulted,    \* whether the transport has failed a call on its own
    lfs0,       \* the local files when the operation started
    rfs0,       \* the remote files when the operation started
    rfs1        \* the remote files when the first sync run ended

fsVars == <<lfs, ldirs, rfs, rdirs, cwd>>

planVars == <<include, exclude, lmap, rmap, todo, order, run, rroot, mtime>>

frameVars == <<src, dst, off, branch, exc>>

ghostVars == <<calls, issued, printed, lwrites, faulted, lfs0, rfs0, rfs1>>

vars == <<fsVars, budget, op, denied, pc, planVars, frameVars, ghostVars>>

\* ------------------------------------------------------------ file trees

NoFiles == [q \in {} |-> <<>>]

\* f with path p holding content c
FsPut(f, p, c) == [q \in (DOMAIN f) \cup {p} |-> IF q = p THEN c ELSE f[q]]

\* f without path p
FsDel(f, p) == [q \in (DOMAIN f) \ {p} |-> f[q]]

\* The user's home on the server, against which a relative path resolves
\* while the session has no working directory.
Home == <<SLASH>>

\* The absolute path the session resolves p to (paramiko's _adjust_cwd).
Resolve(p) ==
    LET base == IF cwd = <<>> THEN Home ELSE cwd
    IN  IF p # <<>> /\ p[1] = SLASH THEN p
        ELSE IF p = <<>> \/ p = <<".">> THEN base
        ELSE Join(base, p)

\* The absolute path a session that has no working directory yet resolves p
\* to: the path a caller means by p.
FromHome(p) == IF p # <<>> /\ p[1] = SLASH THEN p ELSE Join(Home, p)

\* What the transport may answer to one call: success, or one of the error
\* kinds the handlers tell apart (PermissionError, FileNotFoundError, other).
FaultKinds == {"perm", "noent", "other"}

Outcomes == IF budget > 0 THEN {"ok"} \cup FaultKinds ELSE {"ok"}

\* the transport answered k: a failure of its own is counted
Answered(k) ==
    /\ faulted' = (faulted \/ k # "ok")
    /\ budget' = IF k # "ok" THEN budget - 1 ELSE budget

\* sftp.chdir(p) succeeds when p is a directory
ChdirOk(p) == Resolve(p) \in rdirs

\* sftp.mkdir(p) fails when the path exists or its parent is missing
MkdirOk(dirs, p) ==
    /\ Resolve(p) \notin dirs
    /\ Resolve(p) \notin DOMAIN rfs
    /\ Dirname(Resolve(p)) \in dirs

\* mkdir of each path of ps in turn, every failure swallowed: the directories after it
RECURSIVE MkdirEach(_, _)
MkdirEach(dirs, ps) ==
    IF ps = <<>> THEN dirs
    ELSE MkdirEach(IF MkdirOk(dirs, Head(ps)) THEN dirs \cup {Resolve(Head(ps))} ELSE dirs,
                   Tail(ps))

\* the log entries of that loop
RECURSIVE MkdirLog(_, _)
MkdirLog(dirs, ps) ==
    IF ps = <<>> THEN <<>>
    ELSE <<(<<"mkdir", Resolve(Head(ps)), MkdirOk(dirs, Head(ps))>>)>>
         \o MkdirLog(IF MkdirOk(dirs, Head(ps)) THEN dirs \cup {Resolve(Head(ps))} ELSE dirs,
                     Tail(ps))

\* sftp.rename(a, b) fails when a is missing or b exists
RenameOk(a, b) ==
    /\ Resolve(a) \in DOMAIN rfs
    /\ Resolve(b) \notin DOMAIN rfs
    /\ Resolve(b) \notin rdirs
    /\ Dirname(Resolve(b)) \in rdirs

\* sftp.remove(p) fails when p is not a file
RemoveOk(p) == Resolve(p) \in DOMAIN rfs

\* os.makedirs(d, exist_ok=True): d and its missing ancestors
RECURSIVE MakedirsSet(_)
MakedirsSet(d) ==
    IF d = <<>> \/ d = <<".">> \/ Dirname(d) = d THEN {}
    ELSE {d} \cup MakedirsSet(Dirname(d))

\* ---------------------------------------------------- transport: put, get

\* How one step of sftp.put(src, t) ends when the transport answers k: "more"
\* or "done" when it wrote, else the error kind.  The first step opens (and
\* truncates) t, each later step appends one chunk of the local file.
PutStatus(t, k) ==
    IF k # "ok" THEN k
    ELSE IF off = -1
         THEN IF src \notin DOMAIN lfs THEN "noent"
              ELSE IF Resolve(t) \in rdirs THEN "other"
              ELSE IF Dirname(Resolve(t)) \notin rdirs THEN "noent"
              ELSE IF off + 1 = Len(lfs[src]) THEN "done" ELSE "more"
    ELSE IF off + 1 = Len(lfs[src]) THEN "done" ELSE "more"

\* The remote files after a step of sftp.put(src, t) that wrote.
PutWrite(t) ==
    IF off = -1 THEN FsPut(rfs, Resolve(t), <<>>)
    ELSE FsPut(rfs, Resolve(t), Append(rfs[Resolve(t)], lfs[src][off + 1]))

\* open(t, "wb") on the local side: the error it raises, "ok" when none
LocalOpenErr(t) ==
    IF t \in ldirs THEN "other"
    ELSE IF Dirname(t) \notin ldirs \cup {<<>>} THEN "noent"
    ELSE "ok"

\* How one step of sftp.get(src, t) ends: the first step opens (and
\* truncates) the local file t and then asks for the remote file, each later
\* step appends one chunk of it.
GetStatus(t, k) ==
    IF off = -1 /\ LocalOpenErr(t) # "ok" THEN LocalOpenErr(t)
    ELSE IF k # "ok" THEN k
    ELSE IF Resolve(src) \notin DOMAIN rfs THEN "noent"
    ELSE IF off + 1 = Len(rfs[Resolve(src)]) THEN "done" ELSE "more"

\* The local files after a step of sftp.get(src, t) that ended st: the open
\* leaves an empty t even when the remote file then turns out to be missing.
GetWrite(t, st) ==
    IF off = -1
    THEN IF LocalOpenErr(t) # "ok" THEN lfs ELSE FsPut(lfs, t, <<>>)
    ELSE IF st \in {"more", "done"}
         THEN FsPut(lfs, t, Append(lfs[t], rfs[Resolve(src)][off + 1]))
         ELSE lfs

\* ------------------------------------------------------------ atomic_upload

\* transfer.py:20-24: the remote path the upload writes to
UploadTarget(local_path, remote_path) ==
    LET r1 == IF (remote_path # <<>> /\ Last(remote_path) = SLASH)
                  \/ Basename(remote_path) = <<>>
              THEN Join(remote_path, Basename(local_path))
              ELSE remote_path
    IN  IF Basename(r1) = <<>> THEN r1 \o TmpSuffix ELSE r1

\* A faulty atomic_upload that writes in place, straight to the final path:
\* C4 must tell it from the code.
UploadTmpInPlace(remote_path) == remote_path

\* transfer.py:26
UploadTmp(remote_path) == remote_path \o TmpSuffix

\* Where control goes when a transfer returns to its caller.
ReturnPc ==
    IF op \in {"push", "pull", "bidir"} THEN "loop"
    ELSE IF op = "roundtrip" /\ pc \in {"u_rename", "u_rename2", "u_put2", "u_except"}
         THEN "mid"
    ELSE "done"

\* Where control goes when atomic_download raises.
RaisePc == IF op \in {"push", "pull", "bidir"} THEN "aborted" ELSE "raised"

\* transfer.py:30-42: probe the parent directory, create the ancestors if the
\* probe fails
UploadDirs ==
    /\ pc = "u_dirs"
    /\ LET remote_dir == Dirname(dst)
       IN  IF remote_dir # <<>> /\ remote_dir # <<".">>
           THEN IF ChdirOk(remote_dir)
                THEN /\ cwd' = Resolve(remote_dir)
                     /\ rdirs' = rdirs
                     /\ calls' = Append(calls, <<"chdir", Resolve(remote_dir), TRUE>>)
                ELSE /\ cwd' = cwd
                     /\ rdirs' = MkdirEach(rdirs, PartsPrefixes(remote_dir))
                     /\ calls' = Append(calls, <<"chdir", Resolve(remote_dir), FALSE>>)
                                   \o MkdirLog(rdirs, PartsPrefixes(remote_dir))
           ELSE UNCHANGED <<cwd, rdirs, calls>>
    /\ pc' = "u_put"
    /\ UNCHANGED <<lfs, ldirs, rfs, budget, op, denied, planVars, frameVars>>
    /\ UNCHANGED <<issued, printed, lwrites, faulted, lfs0, rfs0, rfs1>>

\* transfer.py:44  sftp.put(local_path, tmp), one step of it
UploadPut ==
    /\ pc = "u_put"
    /\ \E k \in Outcomes :
         LET t  == UploadTmp(dst)
             st == PutStatus(t, k)
         IN  /\ Answered(k)
             /\ calls' = IF off = -1
                         THEN Append(calls, <<"put", Resolve(t), st \in {"more", "done"}>>)
                         ELSE calls
             /\ IF st \in {"more", "done"}
                THEN /\ rfs' = PutWrite(t)
                     /\ off' = IF st = "done" THEN -1 ELSE off + 1
                     /\ pc' = IF st = "done" THEN "u_rename" ELSE "u_put"
                     /\ exc' = exc
                ELSE /\ rfs' = rfs
                     /\ off' = -1
                     /\ pc' = "u_except"
                     /\ exc' = st
    /\ UNCHANGED <<lfs, ldirs, rdirs, cwd, op, denied, planVars, src, dst, branch>>
    /\ UNCHANGED <<issued, printed, lwrites, lfs0, rfs0, rfs1>>

\* The remote files after sftp.rename(a, b) succeeded.
RenameMove(a, b) == FsPut(FsDel(rfs, Resolve(a)), Resolve(b), rfs[Resolve(a)])

\* transfer.py:46-48, 71  the first rename; on success the confirmation line
UploadRename ==
    /\ pc = "u_rename"
    /\ \E k \in Outcomes :
         LET t  == UploadTmp(dst)
             ok == k = "ok" /\ RenameOk(t, dst)
         IN  /\ Answered(k)
             /\ calls' = Append(calls, <<"rename", Resolve(dst), ok>>)
             /\ IF ok
                THEN /\ rfs' = RenameMove(t, dst)
                     /\ printed' = printed \cup {<<"uploaded", dst>>}
                     /\ pc' = ReturnPc
                     /\ branch' = branch
                ELSE /\ rfs' = rfs
                     /\ printed' = printed
                     /\ pc' = "u_rm_dst"
                     /\ branch' = "retry"
    /\ UNCHANGED <<lfs, ldirs, rdirs, cwd, op, denied, planVars, src, dst, off, exc>>
    /\ UNCHANGED <<issued, lwrites, lfs0, rfs0, rfs1>>

\* A faulty atomic_upload that retries the rename without removing the old
\* destination: C7 must tell it from the code.
UploadKeepDst ==
    /\ pc = "u_rm_dst"
    /\ pc' = "u_rename2"
    /\ UNCHANGED <<fsVars, budget, op, denied, planVars, frameVars, ghostVars>>

\* transfer.py:49-52  remove the old destination, a failure swallowed
UploadRemoveDst ==
    /\ pc = "u_rm_dst"
    /\ \E k \in Outcomes :
         LET ok == k = "ok" /\ RemoveOk(dst)
         IN  /\ Answered(k)
             /\ calls' = Append(calls, <<"remove", Resolve(dst), ok>>)
             /\ rfs' = IF ok THEN FsDel(rfs, Resolve(dst)) ELSE rfs
    /\ pc' = "u_rename2"
    /\ UNCHANGED <<lfs, ldirs, rdirs, cwd, op, denied, planVars, frameVars>>
    /\ UNCHANGED <<issued, printed, lwrites, lfs0, rfs0, rfs1>>

\* transfer.py:54-56, 71  the second rename
UploadRename2 ==
    /\ pc = "u_rename2"
    /\ \E k \in Outcomes :
         LET t  == UploadTmp(dst)
             ok == k = "ok" /\ RenameOk(t, dst)
         IN  /\ Answered(k)
             /\ calls' = Append(calls, <<"rename", Resolve(dst), ok>>)
             /\ IF ok
                THEN /\ rfs' = RenameMove(t, dst)
                     /\ printed' = printed \cup {<<"uploaded", dst>>}
                     /\ pc' = ReturnPc
                     /\ branch' = branch
                ELSE /\ rfs' = rfs
                     /\ printed' = printed
                     /\ pc' = "u_rm_tmp"
                     /\ branch' = "fallback"
    /\ UNCHANGED <<lfs, ldirs, rdirs, cwd, op, denied, planVars, src, dst, off, exc>>
    /\ UNCHANGED <<issued, lwrites, lfs0, rfs0, rfs1>>

\* transfer.py:58-61  the fallback removes the temporary file, a failure swallowed
UploadRemoveTmp ==
    /\ pc = "u_rm_tmp"
    /\ \E k \in Outcomes :
         LET t  == UploadTmp(dst)
             ok == k = "ok" /\ RemoveOk(t)
         IN  /\ Answered(k)
             /\ calls' = Append(calls, <<"remove", Resolve(t), ok>>)
             /\ rfs' = IF ok THEN FsDel(rfs, Resolve(t)) ELSE rfs
    /\ pc' = "u_put2"
    /\ UNCHANGED <<lfs, ldirs, rdirs, cwd, op, denied, planVars, frameVars>>
    /\ UNCHANGED <<issued, printed, lwrites, lfs0, rfs0, rfs1>>

\* transfer.py:62-64  sftp.put(local_path, remote_path), one step of it; the
\* fallback returns without a confirmation line
UploadPutDirect ==
    /\ pc = "u_put2"
    /\ \E k \in Outcomes :
         LET st == PutStatus(dst, k)
         IN  /\ Answered(k)
             /\ calls' = IF off = -1
                         THEN Append(calls, <<"put", Resolve(dst), st \in {"more", "done"}>>)
                         ELSE calls
             /\ IF st \in {"more", "done"}
                THEN /\ rfs' = PutWrite(dst)
                     /\ off' = IF st = "done" THEN -1 ELSE off + 1
                     /\ pc' = IF st = "done" THEN ReturnPc ELSE "u_put2"
                ELSE /\ rfs' = rfs
                     /\ off' = -1
                     /\ pc' = "u_rm_tmp2"
    /\ UNCHANGED <<lfs, ldirs, rdirs, cwd, op, denied, planVars, src, dst, branch, exc>>
    /\ UNCHANGED <<issued, printed, lwrites, lfs0, rfs0, rfs1>>

\* transfer.py:64-69  both failed: remove the temporary file, raise RuntimeError
UploadRemoveTmp2 ==
    /\ pc = "u_rm_tmp2"
    /\ \E k \in Outcomes :
         LET t  == UploadTmp(dst)
             ok == k = "ok" /\ RemoveOk(t)
         IN  /\ Answered(k)
             /\ calls' = Append(calls, <<"remove", Resolve(t), ok>>)
             /\ rfs' = IF ok THEN FsDel(rfs, Resolve(t)) ELSE rfs
    /\ pc' = "u_except"
    /\ exc' = "other"
    /\ UNCHANGED <<lfs, ldirs, rdirs, cwd, op, denied, planVars, src, dst, off, branch>>
    /\ UNCHANGED <<issued, printed, lwrites, lfs0, rfs0, rfs1>>

\* transfer.py:72-81  the handlers of atomic_upload: only the last one removes
\* the temporary file; none of them raises
UploadExcept ==
    /\ pc = "u_except"
    /\ IF exc = "other"
       THEN \E k \in Outcomes :
              LET t  == UploadTmp(dst)
                  ok == k = "ok" /\ RemoveOk(t)
              IN  /\ Answered(k)
                  /\ calls' = Append(calls, <<"remove", Resolve(t), ok>>)
                  /\ rfs' = IF ok THEN FsDel(rfs, Resolve(t)) ELSE rfs
                  /\ printed' = printed \cup {<<"error", dst>>}
       ELSE /\ printed' = printed \cup {<<IF exc = "perm" THEN "error_perm" ELSE "error_noent",
                                         IF exc = "perm" THEN dst ELSE src>>}
            /\ UNCHANGED <<faulted, budget, calls, rfs>>
    /\ pc' = ReturnPc
    /\ exc' = ""
    /\ UNCHANGED <<lfs, ldirs, rdirs, cwd, op, denied, planVars, src, dst, off, branch>>
    /\ UNCHANGED <<issued, lwrites, lfs0, rfs0, rfs1>>

\* ---------------------------------------------------------- atomic_download

\* os.path.isdir
IsLocalDir(p) == p # <<>> /\ (RStripSlash(p) \in ldirs \/ p \in ldirs)

\* transfer.py:84-91: the local path the download writes to
DownloadTarget(remote_path, local_path) ==
    LET l1 == IF IsLocalDir(local_path)
              THEN Join(local_path, Basename(remote_path))
              ELSE local_path
        l2 == IF (l1 # <<>> /\ Last(l1) = SLASH) \/ Basename(l1) = <<>>
              THEN Join(l1, Basename(remote_path))
              ELSE l1
    IN  IF Basename(l2) = <<>> THEN l2 \o TmpSuffix ELSE l2

\* transfer.py:93
DownloadTmp(local_path) == local_path \o TmpSuffix

\* transfer.py:96-98  os.makedirs(local_dir, exist_ok=True), unconditionally
DownloadDirs ==
    /\ pc = "d_dirs"
    /\ LET local_dir == Dirname(dst)
           blocked   == MakedirsSet(local_dir) \cap DOMAIN lfs # {}
       IN  IF local_dir # <<>> /\ local_dir # <<".">>
           THEN /\ calls' = Append(calls, <<"makedirs", local_dir, ~blocked>>)
                /\ IF blocked
                   THEN /\ pc' = "d_except"
                        /\ exc' = "other"
                        /\ ldirs' = ldirs
                   ELSE /\ pc' = "d_get"
                        /\ exc' = exc
                        /\ ldirs' = ldirs \cup MakedirsSet(local_dir)
           ELSE /\ pc' = "d_get"
                /\ UNCHANGED <<calls, exc, ldirs>>
    /\ UNCHANGED <<lfs, rfs, rdirs, cwd, budget, op, denied, planVars, src, dst, off, branch>>
    /\ UNCHANGED <<issued, printed, lwrites, faulted, lfs0, rfs0, rfs1>>

\* transfer.py:100  sftp.get(remote_path, tmp), one step of it
DownloadGet ==
    /\ pc = "d_get"
    /\ \E k \in Outcomes :
         LET t  == DownloadTmp(dst)
             st == GetStatus(t, k)
         IN  /\ Answered(k)
             /\ calls' = IF off = -1
                         THEN Append(calls, <<"get", t, st \in {"more", "done"}>>)
                         ELSE calls
             /\ lfs' = GetWrite(t, st)
             /\ lwrites' = IF GetWrite(t, st) # lfs THEN lwrites \cup {t} ELSE lwrites
             /\ IF st \in {"more", "done"}
                THEN /\ off' = IF st = "done" THEN -1 ELSE off + 1
                     /\ pc' = IF st = "done" THEN "d_replace" ELSE "d_get"
                     /\ exc' = exc
                ELSE /\ off' = -1
                     /\ pc' = "d_except"
                     /\ exc' = st
    /\ UNCHANGED <<ldirs, rfs, rdirs, cwd, op, denied, planVars, src, dst, branch>>
    /\ UNCHANGED <<issued, printed, lfs0, rfs0, rfs1>>

\* transfer.py:229  the conflict notice sync_bidirectional prints when the
\* download of the conflict copy returns
ConflictNotice ==
    IF op = "bidir" /\ branch = "conflict" THEN {<<"conflict", dst>>} ELSE {}

\* os.replace(a, b): the error it raises, "ok" when none
ReplaceErr(a, b) ==
    IF a \notin DOMAIN lfs THEN "noent"
    ELSE IF b \in ldirs THEN "other"
    ELSE "ok"

\* A faulty atomic_download that copies the temporary file to the final path
\* and leaves it behind: C9 must tell it from the code.
ReplaceCopy(a, b) == FsPut(lfs, b, lfs[a])

\* transfer.py:101  the local tree after os.replace(a, b) has moved a to b
ReplaceMove(a, b) == FsPut(FsDel(lfs, a), b, lfs[a])

\* transfer.py:101-102  os.replace(tmp, local_path) and the confirmation line
DownloadReplace ==
    /\ pc = "d_replace"
    /\ \E k \in Outcomes :
         LET t  == DownloadTmp(dst)
             st == IF ReplaceErr(t, dst) # "ok" THEN ReplaceErr(t, dst) ELSE k
         IN  /\ Answered(k)
             /\ calls' = Append(calls, <<"replace", dst, st = "ok">>)
             /\ IF st = "ok"
                THEN /\ lfs' = ReplaceMove(t, dst)
                     /\ lwrites' = lwrites \cup {t, dst}
                     /\ printed' = printed \cup {<<"downloaded", dst>>} \cup ConflictNotice
                     /\ pc' = ReturnPc
                     /\ exc' = exc
                ELSE /\ pc' = "d_except"
                     /\ exc' = st
                     /\ UNCHANGED <<lfs, lwrites, printed>>
    /\ UNCHANGED <<ldirs, rfs, rdirs, cwd, op, denied, planVars, src, dst, off, branch>>
    /\ UNCHANGED <<issued, lfs0, rfs0, rfs1>>

\* transfer.py:104-114  the handlers of atomic_download: a missing file and a
\* permission error are reported and swallowed; any other error removes the
\* temporary file and raises RuntimeError
DownloadExcept ==
    /\ pc = "d_except"
    /\ LET t == DownloadTmp(dst)
       IN  IF exc = "other"
           THEN /\ printed' = printed \cup {<<"error", dst>>}
                /\ calls' = Append(calls, <<"os.remove", t, t \in DOMAIN lfs>>)
                /\ lfs' = IF t \in DOMAIN lfs THEN FsDel(lfs, t) ELSE lfs
                /\ lwrites' = IF t \in DOMAIN lfs THEN lwrites \cup {t} ELSE lwrites
                /\ pc' = RaisePc
           ELSE /\ printed' = printed \cup {<<IF exc = "perm" THEN "error_perm" ELSE "error_noent",
                                             src>>} \cup ConflictNotice
                /\ pc' = ReturnPc
                /\ UNCHANGED <<calls, lfs, lwrites>>
    /\ exc' = ""
    /\ UNCHANGED <<ldirs, rfs, rdirs, cwd, budget, op, denied, planVars, src, dst, off, branch>>
    /\ UNCHANGED <<issued, faulted, lfs0, rfs0, rfs1>>

\* ---------------------------------------------- one transfer, one round trip

Chunks == {"x", "y"}

\* every file content of at most MaxLen chunks
Contents == UNION {[1..n -> Chunks] : n \in 0..MaxLen}

\* the content of a file that is at the destination before the upload
OldContent == <<"o">>

\* the content of a temporary file an earlier, interrupted transfer left
StaleContent == <<"s", "s", "s">>

LocalRoot == <<"l">>

LocalFile == <<"l", SLASH, "a">>

\* remote_path arguments: a file, a directory (trailing separator), a file
\* whose parent directory does not exist yet, and a file named relative to
\* the user's home
UploadArgs ==
    { <<SLASH, "r", SLASH, "a">>,
      <<SLASH, "r", SLASH>>,
      <<SLASH, "r", SLASH, "b", SLASH, "a">>,
      <<"r", SLASH, "a">> }

\* local_path arguments of the download: the uploaded file itself, a
\* directory, and a file whose parent directory does not exist yet
DownloadArgs ==
    { LocalFile,
      LocalRoot,
      <<"l", SLASH, "n", SLASH, "a">> }

\* the remote trees an upload to remote_path may meet: with or without the
\* parent directory, an old file at the destination, a stale temporary file
RemoteTrees(remote_path) ==
    LET t    == FromHome(UploadTarget(LocalFile, remote_path))
        d    == Dirname(t)
        dirs == {<<SLASH>>} \cup MakedirsSet(d)
    IN  { [dirs |-> {<<SLASH>>}, files |-> NoFiles] }
        \cup { [dirs |-> dirs, files |-> f] :
                 f \in { NoFiles,
                         FsPut(NoFiles, t, OldContent),
                         FsPut(NoFiles, UploadTmp(t), StaleContent),
                         FsPut(FsPut(NoFiles, t, OldContent), UploadTmp(t), StaleContent) } }

NoPlan ==
    /\ include = <<>>
    /\ exclude = <<>>
    /\ lmap = NoFiles
    /\ rmap = NoFiles
    /\ todo = {}
    /\ order = <<>>
    /\ run = 0
    /\ rroot = <<>>
    /\ mtime = [l |-> NoFiles, r |-> NoFiles]

NoFrame ==
    /\ src = <<>>
    /\ dst = <<>>
    /\ off = -1
    /\ branch = "normal"
    /\ exc = ""

NoHistory ==
    /\ calls = <<>>
    /\ issued = {}
    /\ printed = {}
    /\ lwrites = {}
    /\ faulted = FALSE
    /\ lfs0 = lfs
    /\ rfs0 = rfs
    /\ rfs1 = NoFiles

\* A session with one local file, about to upload it (and, for a round trip,
\* to download it back).
Init ==
    /\ op \in {"upload", "roundtrip"}
    /\ denied = {}
    /\ pc = "start"
    /\ budget \in {0, MaxFaults}
    /\ \E c \in Contents : lfs = FsPut(NoFiles, LocalFile, c)
    /\ ldirs = {LocalRoot}
    /\ \E a \in UploadArgs : \E tree \in RemoteTrees(a) :
         /\ rfs = tree.files
         /\ rdirs = tree.dirs
         /\ src = LocalFile
         /\ dst = a
    /\ cwd = <<>>
    /\ NoPlan
    /\ off = -1
    /\ branch = "normal"
    /\ exc = ""
    /\ NoHistory

\* transfer.py:19-26  atomic_upload(sftp, local_path, remote_path) is entered
CallUpload ==
    /\ pc = "start"
    /\ dst' = UploadTarget(src, dst)
    /\ pc' = "u_dirs"
    /\ UNCHANGED <<fsVars, budget, op, denied, planVars, src, off, branch, exc, ghostVars>>

\* transfer.py:83-93  atomic_download(sftp, remote_path, local_path) is
\* entered, for the remote path the upload wrote
CallDownload ==
    /\ pc = "mid"
    /\ \E a \in DownloadArgs :
         /\ src' = dst
         /\ dst' = DownloadTarget(dst, a)
    /\ pc' = "d_dirs"
    /\ calls' = <<>>
    /\ UNCHANGED <<fsVars, budget, op, denied, planVars, off, branch, exc>>
    /\ UNCHANGED <<issued, printed, lwrites, faulted, lfs0, rfs0, rfs1>>

Upload ==
    \/ UploadDirs
    \/ UploadPut
    \/ UploadRename
    \/ UploadRemoveDst
    \/ UploadRename2
    \/ UploadRemoveTmp
    \/ UploadPutDirect
    \/ UploadRemoveTmp2
    \/ UploadExcept

Download ==
    \/ DownloadDirs
    \/ DownloadGet
    \/ DownloadReplace
    \/ DownloadExcept

Next ==
    \/ CallUpload
    \/ Upload
    \/ CallDownload
    \/ Download

Spec == Init /\ [][Next]_vars

\* ------------------------------------------------- claims on one transfer

\* atomic_upload is running
InUpload ==
    pc \in {"u_dirs", "u_put", "u_rename", "u_rm_dst", "u_rename2", "u_rm_tmp",
            "u_put2", "u_rm_tmp2", "u_except"}

\* the single atomic_upload has returned (and no download has started)
UploadReturned == pc = "mid" \/ (op = "upload" /\ pc = "done")

\* the content of the local file when the operation started
NewContent == lfs0[LocalFile]

\* C4: while atomic_upload has not left its normal branch (the first rename
\* has not failed), and after it returned that way, every remote path other
\* than the temporary path holds a complete file: the final path holds what
\* it held before the upload (or nothing, if there was nothing) or the whole
\* new content, and every other path is as it was; only target + ".tmp" may
\* hold a partially written file.
C4_NoPartialAtFinalPath ==
    ((InUpload \/ UploadReturned) /\ branch = "normal") =>
        LET final == FromHome(dst)
            tmp   == FromHome(UploadTmp(dst))
        IN  /\ final \in DOMAIN rfs =>
                 \/ final \in DOMAIN rfs0 /\ rfs[final] = rfs0[final]
                 \/ rfs[final] = NewContent
            /\ final \notin DOMAIN rfs => final \notin DOMAIN rfs0
            /\ \A q \in (DOMAIN rfs) \ {final, tmp} :
                 q \in DOMAIN rfs0 /\ rfs[q] = rfs0[q]

\* C4, witness: an upload of a file written in two steps has completed on
\* its first rename.
C4_Witness ==
    /\ op = "upload"
    /\ pc = "done"
    /\ branch = "normal"
    /\ ~faulted
    /\ <<"uploaded", dst>> \in printed
    /\ Len(NewContent) >= 2
    /\ rfs[FromHome(dst)] = NewContent

\* the transport has refused a rename of the upload
RenameRefused == \E i \in 1..Len(calls) : calls[i][1] = "rename" /\ ~calls[i][3]

\* C7: when the destination exists before atomic_upload, the rename is
\* therefore refused and the transport fails no call on its own, the upload
\* returns through the remove-and-retry branch: the old destination was removed, the final path holds the new
\* content, no ".tmp" file remains and no other remote file has changed.
C7_RenameRefusedCompletes ==
    (UploadReturned /\ ~faulted /\ FromHome(dst) \in DOMAIN rfs0 /\ RenameRefused) =>
        LET final == FromHome(dst)
            tmp   == FromHome(UploadTmp(dst))
        IN  /\ branch = "retry"
            /\ <<"remove", final, TRUE>> \in {calls[i] : i \in 1..Len(calls)}
            /\ final \in DOMAIN rfs
            /\ rfs[final] = NewContent
            /\ tmp \notin DOMAIN rfs
            /\ DOMAIN rfs = ((DOMAIN rfs0) \cup {final}) \ {tmp}
            /\ <<"uploaded", dst>> \in printed

\* C7, witness: an upload over an existing destination has returned with the
\* new content in place of the old one.
C7_Witness ==
    /\ UploadReturned
    /\ ~faulted
    /\ FromHome(dst) \in DOMAIN rfs0
    /\ rfs0[FromHome(dst)] = OldContent
    /\ RenameRefused
    /\ branch = "retry"
    /\ rfs[FromHome(dst)] = NewContent

\* the paths of f that end in ".tmp"
TmpPaths(f) == {q \in DOMAIN f : EndsWith(q, TmpSuffix)}

\* neither transfer has reported an error
NoErrorReported == \A l \in printed : l[1] \in {"uploaded", "downloaded"}

\* C9: a round trip (atomic_upload of the local file, then atomic_download of
\* the remote path it wrote) with no failure (the transport fails no call on
\* its own and neither transfer reports an error) ends with the downloaded
\* local file holding the original content, and with no ".tmp" file on the
\* remote side nor on the local side.
C9_RoundTrip ==
    (op = "roundtrip" /\ pc = "done" /\ ~faulted /\ NoErrorReported) =>
        /\ dst \in DOMAIN lfs
        /\ lfs[dst] = NewContent
        /\ TmpPaths(rfs) = {}
        /\ TmpPaths(lfs) = {}

\* C9, witness: a two-chunk file came back, into a directory the download made.
C9_Witness ==
    /\ op = "roundtrip"
    /\ pc = "done"
    /\ ~faulted
    /\ dst # LocalFile
    /\ dst \in DOMAIN lfs
    /\ Len(lfs[dst]) = 2
    /\ lfs[dst] = NewContent
    /\ <<"downloaded", dst>> \in printed

\* ------------------------------------------------------------ the scanner

RemoteRoot == <<SLASH, "r">>

\* the same directory named relative to the user's home
RelativeRoot == <<"r">>

\* transfer.py:116-127  list_local(path): the files below path, keyed by
\* their path relative to it.  os.walk is called without onerror, so a
\* directory it cannot enumerate is skipped in silence, with all below it.
ListLocal(path) ==
    LET below == {p \in DOMAIN lfs :
                    /\ StartsWith(p, RStripSlash(path) \o <<SLASH>>)
                    /\ \A d \in denied : ~StartsWith(p, d \o <<SLASH>>)}
        keys  == {RelPath(p, path) : p \in below}
    IN  [k \in keys |-> mtime.l[Join(path, k)]]

\* transfer.py:129-142  list_remote(sftp, path): the files below path, keyed
\* by os.path.join of path and the names on the way down
ListRemote(path) ==
    LET root  == Resolve(path)
        below == {p \in DOMAIN rfs : StartsWith(p, RStripSlash(root) \o <<SLASH>>)}
        keys  == {Join(path, RelPath(p, root)) : p \in below}
    IN  [k \in keys |-> mtime.r[Resolve(k)]]

\* transfer.py:133  sftp.listdir_attr raises, and list_remote with it, when
\* the root is no directory or a directory on the way down cannot be listed
RemoteScanFails(path) ==
    LET root == Resolve(path)
    IN  \/ root \notin rdirs
        \/ \E d \in denied \cap rdirs :
              d = root \/ StartsWith(d, RStripSlash(root) \o <<SLASH>>)

\* os.walk visits the files of a directory before those of its
\* subdirectories: the keys of s that may come next
IsAncestorDir(d, e) == d # e /\ (d = <<>> \/ StartsWith(e, d \o <<SLASH>>))

WalkNext(s) ==
    {k \in s : \A j \in s : ~IsAncestorDir(Dirname(j), Dirname(k))}

\* --------------------------------------------------------------- sync_push

\* transfer.py:149-157  the filter of sync_push.  Each any(...) evaluates
\* fnmatch(fname, pat) or fnmatch(rel_path, pat) for the first pattern;
\* rel_path is not a name of sync_push, so the second operand raises
\* NameError whenever the first is false, and any() returns at the first
\* true.  "true", "false" (should_include), or "NameError".
PushShouldInclude(rel) ==
    LET fname == Basename(rel)
        inc   == IF include = <<>> THEN "true"
                 ELSE IF Fnmatch(fname, include[1]) THEN "true" ELSE "NameError"
    IN  IF inc # "true" THEN inc
        ELSE IF exclude = <<>> THEN "true"
        ELSE IF Fnmatch(fname, exclude[1]) THEN "false" ELSE "NameError"

\* transfer.py:145  the scan that starts a push
PushStart ==
    /\ op = "push"
    /\ pc = "start"
    /\ lmap' = ListLocal(LocalRoot)
    /\ todo' = DOMAIN ListLocal(LocalRoot)
    /\ order' = <<>>
    /\ run' = 1
    /\ pc' = "loop"
    /\ UNCHANGED <<fsVars, budget, op, denied, include, exclude, rmap, rroot, mtime, frameVars, ghostVars>>

\* the key the loop of a push visits next: any the walk allows in the first
\* run, the same order again in the second (the local tree has not changed)
PushNextKeys ==
    IF run = 1 THEN WalkNext(todo)
    ELSE {order[Cardinality(DOMAIN lmap) - Cardinality(todo) + 1]}

\* transfer.py:146-173  one iteration of the loop of sync_push, up to the call
\* of atomic_upload: the filter (whose result the loop never reads), the
\* probe of the parent directory and the mkdir of every ancestor if the probe
\* fails; then atomic_upload(sftp, lfile, rfile) is entered
PushLoop ==
    /\ op = "push"
    /\ pc = "loop"
    /\ todo # {}
    /\ \E rel \in PushNextKeys :
         LET lfile == Join(LocalRoot, rel)
             rfile == Join(rroot, rel)
         IN  /\ todo' = todo \ {rel}
             /\ order' = IF run = 1 THEN Append(order, rel) ELSE order
             /\ IF PushShouldInclude(rel) = "NameError"
                THEN /\ pc' = "aborted"
                     /\ printed' = printed \cup {<<"NameError", rel>>}
                     /\ UNCHANGED <<cwd, rdirs, src, dst, calls, issued>>
                ELSE /\ IF ChdirOk(Dirname(rfile))
                        THEN /\ cwd' = Resolve(Dirname(rfile))
                             /\ rdirs' = rdirs
                        ELSE /\ cwd' = cwd
                             /\ rdirs' = MkdirEach(rdirs, Reverse(Parents(rfile)))
                     /\ src' = lfile
                     /\ dst' = UploadTarget(lfile, rfile)
                     /\ calls' = <<>>
                     /\ issued' = issued \cup {<<"upload", rel, run>>}
                     /\ printed' = printed
                     /\ pc' = "u_dirs"
    /\ off' = -1
    /\ branch' = "normal"
    /\ exc' = ""
    /\ UNCHANGED <<lfs, ldirs, rfs, budget, op, denied, include, exclude, lmap, rmap, run, rroot, mtime>>
    /\ UNCHANGED <<lwrites, faulted, lfs0, rfs0, rfs1>>

\* transfer.py:146  the loop of sync_push ends, or NameError has ended the
\* run; the same push is then run a second time, in the same session or in
\* a new one
PushEnd ==
    /\ op = "push"
    /\ \/ pc = "loop" /\ todo = {}
       \/ pc = "aborted" /\ run = 1
    /\ IF run = 1
       THEN /\ rfs1' = rfs
            /\ run' = 2
            /\ lmap' = ListLocal(LocalRoot)
            /\ todo' = DOMAIN ListLocal(LocalRoot)
            /\ cwd' \in {cwd, <<>>}
            /\ pc' = "loop"
       ELSE /\ pc' = "done"
            /\ UNCHANGED <<rfs1, run, lmap, todo, cwd>>
    /\ UNCHANGED <<lfs, ldirs, rfs, rdirs, budget, op, denied, include, exclude, rmap, order, rroot, mtime>>
    /\ UNCHANGED <<frameVars, calls, issued, printed, lwrites, faulted, lfs0, rfs0>>

\* ----------------------------------------------------- the trees of a sync

\* path keys: a file, a file named like its temporary file, a file named
\* like its conflict copy, and a file in a subdirectory
KeyA == <<"a">>

KeyATmp == KeyA \o TmpSuffix

KeyARemote == KeyA \o RemoteSuffix

KeyBC == <<"b", SLASH, "c">>

PushKeys == {KeyA, KeyATmp, KeyBC}

\* the content of the file at key k on one side: two chunks that name it
Body(side, k) == << <<side, k, 1>>, <<side, k, 2>> >>

\* the tree with the files of keys below root
Tree(side, root, keys) ==
    [p \in {Join(root, k) : k \in keys} |-> Body(side, RelPath(p, root))]

\* the directories of a tree: the root's ancestors and the files' ancestors
TreeDirs(root, keys) ==
    UNION {MakedirsSet(Dirname(Join(root, k))) : k \in keys}

\* glob patterns: one that matches names beginning with "a", one that matches
\* the path b/c only as a full path, one that matches it only by its basename
Patterns ==
    { <<"a", "*">>,
      <<"b", SLASH, "*">>,
      <<"c">> }

\* every list of at most n patterns
PatLists(n) == UNION {[1..i -> Patterns] : i \in 0..n}

ConstTime(f) == [p \in DOMAIN f |-> 0]

\* A session about to push a local tree to a remote tree.  The transport's
\* own failures are explored on the runs without patterns.
InitPush ==
    /\ op = "push"
    /\ denied = {}
    /\ pc = "start"
    /\ budget \in {0, MaxSyncFaults}
    /\ \E lk \in (SUBSET PushKeys) \ {{}} :
         /\ lfs = Tree("L", LocalRoot, lk)
         /\ ldirs = {LocalRoot} \cup TreeDirs(LocalRoot, lk)
    /\ \E rk \in SUBSET PushKeys :
         /\ rfs = Tree("R", RemoteRoot, rk)
         /\ \E d \in (IF rk = {} THEN {{}, {RemoteRoot}} ELSE {{RemoteRoot}}) :
              rdirs = {<<SLASH>>} \cup d \cup TreeDirs(RemoteRoot, rk)
    /\ cwd = <<>>
    /\ include \in PatLists(MaxPats)
    /\ exclude \in PatLists(MaxPats)
    /\ budget > 0 => (include = <<>> /\ exclude = <<>>)
    /\ lmap = NoFiles
    /\ rmap = NoFiles
    /\ todo = {}
    /\ order = <<>>
    /\ run = 0
    /\ rroot \in {RemoteRoot, RelativeRoot}
    /\ budget > 0 => rroot = RemoteRoot
    /\ mtime = [l |-> ConstTime(lfs), r |-> ConstTime(rfs)]
    /\ NoFrame
    /\ NoHistory

NextPush ==
    \/ PushStart
    \/ PushLoop
    \/ PushEnd
    \/ Upload

SpecPush == InitPush /\ [][NextPush]_vars

\* ------------------------------------------- sync_pull, sync_bidirectional

\* transfer.py:181-184, 214-217  the filter of sync_pull and of
\* sync_bidirectional: the patterns are matched against the basename only
BasenameIncluded(fname) ==
    /\ ~(include # <<>> /\ ~AnyBasename(fname, include))
    /\ ~(exclude # <<>> /\ AnyBasename(fname, exclude))

\* transfer.py:176-177  the scan that starts a pull; listdir_attr of a
\* directory that does not exist raises
PullStart ==
    /\ op = "pull"
    /\ pc = "start"
    /\ IF ~RemoteScanFails(rroot)
       THEN /\ rmap' = ListRemote(rroot)
            /\ todo' = DOMAIN ListRemote(rroot)
            /\ pc' = "loop"
       ELSE /\ pc' = "aborted"
            /\ UNCHANGED <<rmap, todo>>
    /\ run' = 1
    /\ UNCHANGED <<fsVars, budget, op, denied, include, exclude, lmap, order, rroot, mtime, frameVars>>
    /\ UNCHANGED ghostVars

\* transfer.py:179-189  one iteration of the loop of sync_pull: the filter,
\* the local path, its directories; then atomic_download is entered
PullLoop ==
    /\ op = "pull"
    /\ pc = "loop"
    /\ \E remote_path \in todo :
         LET fname    == Basename(remote_path)
             rel_path == RelPath(remote_path, RStripSlash(rroot))
             lfile    == Join(LocalRoot, rel_path)
             blocked  == MakedirsSet(Dirname(lfile)) \cap DOMAIN lfs # {}
         IN  /\ todo' = todo \ {remote_path}
             /\ order' = Append(order, remote_path)
             /\ IF ~BasenameIncluded(fname)
                THEN /\ pc' = "loop"
                     /\ UNCHANGED <<ldirs, src, dst, calls, issued>>
                ELSE IF blocked
                THEN /\ pc' = "aborted"
                     /\ UNCHANGED <<ldirs, src, dst, calls, issued>>
                ELSE /\ ldirs' = ldirs \cup MakedirsSet(Dirname(lfile))
                     /\ src' = remote_path
                     /\ dst' = DownloadTarget(remote_path, lfile)
                     /\ calls' = <<>>
                     /\ issued' = issued \cup {<<"download", rel_path, dst'>>}
                     /\ pc' = "d_dirs"
    /\ off' = -1
    /\ branch' = "normal"
    /\ exc' = ""
    /\ UNCHANGED <<lfs, rfs, rdirs, cwd, budget, op, denied, include, exclude, lmap, rmap, run, rroot, mtime>>
    /\ UNCHANGED <<printed, lwrites, faulted, lfs0, rfs0, rfs1>>

\* transfer.py:192-203  the two scans that start a bidirectional sync and
\* the re-keying of the remote mapping relative to the remote root
BidirStart ==
    /\ op = "bidir"
    /\ pc = "start"
    /\ IF ~RemoteScanFails(rroot)
       THEN LET raw   == ListRemote(rroot)
                rekey == {RelPath(path, RStripSlash(rroot)) : path \in DOMAIN raw}
            IN  /\ lmap' = ListLocal(LocalRoot)
                /\ rmap' = [k \in rekey |-> raw[Join(RStripSlash(rroot), k)]]
                /\ todo' = DOMAIN ListLocal(LocalRoot) \cup rekey
                /\ pc' = "loop"
       ELSE /\ pc' = "aborted"
            /\ UNCHANGED <<lmap, rmap, todo>>
    /\ run' = 1
    /\ UNCHANGED <<fsVars, budget, op, denied, include, exclude, order, rroot, mtime, frameVars>>
    /\ UNCHANGED ghostVars

\* transfer.py:219-233  the action sync_bidirectional takes for key rel:
\* "upload", "download" or "conflict"
BidirAction(rel) ==
    IF rel \in DOMAIN lmap /\ rel \notin DOMAIN rmap THEN "upload"
    ELSE IF rel \in DOMAIN rmap /\ rel \notin DOMAIN lmap THEN "download"
    ELSE LET ltime == lmap[rel]
             rtime == rmap[rel]
             diff  == IF ltime >= rtime THEN ltime - rtime ELSE rtime - ltime
         IN  IF diff <= Tolerance THEN "conflict"
             ELSE IF ltime > rtime THEN "upload"
             ELSE "download"

\* transfer.py:205-233  one iteration of the loop of sync_bidirectional, up
\* to the call of the transfer engine
BidirLoop ==
    /\ op = "bidir"
    /\ pc = "loop"
    /\ \E rel \in todo :
         LET lfile == Join(LocalRoot, rel)
             rfile == Join(RStripSlash(rroot), rel)
             fname == Basename(rel)
             act   == BidirAction(rel)
             ltgt  == IF act = "conflict" THEN lfile \o RemoteSuffix ELSE lfile
             mk    == IF rel \in DOMAIN rmap /\ rel \notin DOMAIN lmap
                      THEN MakedirsSet(Dirname(lfile)) ELSE {}
         IN  /\ todo' = todo \ {rel}
             /\ order' = Append(order, rel)
             /\ IF ~BasenameIncluded(fname)
                THEN /\ pc' = "loop"
                     /\ branch' = "normal"
                     /\ UNCHANGED <<ldirs, src, dst, calls, issued>>
                ELSE IF mk \cap DOMAIN lfs # {}
                THEN /\ pc' = "aborted"
                     /\ branch' = "normal"
                     /\ UNCHANGED <<ldirs, src, dst, calls, issued>>
                ELSE IF act = "upload"
                THEN /\ src' = lfile
                     /\ dst' = UploadTarget(lfile, rfile)
                     /\ pc' = "u_dirs"
                     /\ branch' = "normal"
                     /\ calls' = <<>>
                     /\ issued' = issued \cup {<<"upload", rel, dst'>>}
                     /\ ldirs' = ldirs
                ELSE /\ ldirs' = ldirs \cup mk
                     /\ src' = rfile
                     /\ dst' = DownloadTarget(rfile, ltgt)
                     /\ pc' = "d_dirs"
                     /\ branch' = IF act = "conflict" THEN "conflict" ELSE "normal"
                     /\ calls' = <<>>
                     /\ issued' = issued \cup {<<act, rel, dst'>>}
    /\ off' = -1
    /\ exc' = ""
    /\ UNCHANGED <<lfs, rfs, rdirs, cwd, budget, op, denied, include, exclude, lmap, rmap, run, rroot, mtime>>
    /\ UNCHANGED <<printed, lwrites, faulted, lfs0, rfs0, rfs1>>

\* transfer.py:179, 205  the loop of the sync run ends
SyncEnd ==
    /\ op \in {"pull", "bidir"}
    /\ pc = "loop"
    /\ todo = {}
    /\ pc' = "done"
    /\ UNCHANGED <<fsVars, budget, op, denied, planVars, frameVars, ghostVars>>

\* the keys of a sync run: those of a push and a file named like a conflict copy
SyncKeys == PushKeys \cup {KeyARemote}

\* the scanned modification times (local, remote) of a file present on both
\* sides: equal, apart by exactly the tolerance, apart by more
MTimePairs ==
    { <<0, 0>>,
      <<0, Tolerance>>,
      <<Tolerance, 0>>,
      <<0, Tolerance + MTimeStep>>,
      <<Tolerance + MTimeStep, 0>> }

\* the ways the keys ks can be laid out: each key local only, remote only,
\* or on both sides with a pair of modification times
Layouts(ks) == [ks -> {<<"L">>, <<"R">>} \cup MTimePairs]

OnLocal(lay) == {k \in DOMAIN lay : lay[k] # <<"R">>}

OnRemote(lay) == {k \in DOMAIN lay : lay[k] # <<"L">>}

\* A session about to pull or to sync both ways: at most MaxKeys keys.  The
\* transport's own failures, and a directory that cannot be enumerated, are
\* explored on the runs without patterns.
InitSync ==
    /\ op \in {"pull", "bidir"}
    /\ pc = "start"
    /\ budget \in {0, MaxSyncFaults}
    /\ \E ks \in {x \in SUBSET SyncKeys : Cardinality(x) <= MaxKeys} :
         \E lay \in Layouts(ks) :
           /\ lfs = Tree("L", LocalRoot, OnLocal(lay))
           /\ ldirs = {LocalRoot} \cup TreeDirs(LocalRoot, OnLocal(lay))
           /\ rfs = Tree("R", RemoteRoot, OnRemote(lay))
           /\ \E d \in (IF OnRemote(lay) = {} THEN {{}, {RemoteRoot}} ELSE {{RemoteRoot}}) :
                rdirs = {<<SLASH>>} \cup d \cup TreeDirs(RemoteRoot, OnRemote(lay))
           /\ mtime = [l |-> [p \in DOMAIN lfs |->
                                 LET k == RelPath(p, LocalRoot)
                                 IN  IF lay[k] = <<"L">> THEN 0 ELSE lay[k][1]],
                       r |-> [p \in DOMAIN rfs |->
                                 LET k == RelPath(p, RemoteRoot)
                                 IN  IF lay[k] = <<"R">> THEN 0 ELSE lay[k][2]]]
    /\ cwd = <<>>
    /\ include \in PatLists(MaxPats)
    /\ exclude \in PatLists(MaxPats)
    /\ budget > 0 => (include = <<>> /\ exclude = <<>>)
    /\ denied \in {{}} \cup {{d} : d \in (ldirs \cup rdirs) \ {<<SLASH>>}}
    /\ denied # {} => (budget = 0 /\ include = <<>> /\ exclude = <<>>)
    /\ lmap = NoFiles
    /\ rmap = NoFiles
    /\ todo = {}
    /\ order = <<>>
    /\ run = 0
    /\ rroot = RemoteRoot
    /\ NoFrame
    /\ NoHistory

NextSync ==
    \/ PullStart
    \/ PullLoop
    \/ BidirStart
    \/ BidirLoop
    \/ SyncEnd
    \/ Upload
    \/ Download

SpecSync == InitSync /\ [][NextSync]_vars

\* ------------------------------------------------------ claims on sync_push

\* the first run of the push has just ended, having visited every key
PushRunOver ==
    /\ op = "push"
    /\ pc = "loop"
    /\ run = 2
    /\ todo = DOMAIN lmap
    /\ Len(order) = Cardinality(DOMAIN lmap)
    /\ \A k \in DOMAIN lmap : <<"NameError", k>> \notin printed

\* the remote path of key k, as the session resolves it before any chdir, and
\* its local path
RemoteOf(k) == FromHome(Join(RStripSlash(rroot), k))

LocalOf(k) == Join(LocalRoot, k)

\* C1 as stated: when a push has run over the whole local mapping and the
\* transport failed no call on its own, every path that was present only
\* locally and passes the filter is present remotely with the local content,
\* and its temporary path is absent (unless that path is itself the image of
\* a local key).
C1_PushedPresent ==
    (PushRunOver /\ ~faulted) =>
        \A k \in DOMAIN lmap :
            (RemoteOf(k) \notin DOMAIN rfs0 /\ Included(k, include, exclude)) =>
                /\ RemoteOf(k) \in DOMAIN rfs
                /\ rfs[RemoteOf(k)] = lfs0[LocalOf(k)]
                /\ \/ RemoteOf(k \o TmpSuffix) \notin DOMAIN rfs
                   \/ k \o TmpSuffix \in DOMAIN lmap

\* C5 as stated: a push uploads exactly the paths that pass the filter, and
\* completes over the whole mapping.
C5_PushUploadsExactlyIncluded ==
    op = "push" =>
        /\ pc # "aborted"
        /\ \A i \in issued : Included(i[2], include, exclude)
        /\ PushRunOver =>
             \A k \in DOMAIN lmap :
                 Included(k, include, exclude) => <<"upload", k, 1>> \in issued

\* C8 as stated: a push run twice over an unchanged local tree, the transport
\* failing no call on its own, leaves the remote files after the second run
\* as they were after the first, whether the runs visited every key or ended
\* early.
C8_PushIdempotent ==
    (op = "push" /\ run = 2 /\ pc \in {"done", "aborted"} /\ ~faulted) =>
        rfs = rfs1

\* C10 as stated: at no point of a push has a remote file that is not the
\* image of a local key been removed or altered.
C10_RemoteOnlyKept ==
    (op = "push" /\ pc # "start") =>
        \A r \in DOMAIN rfs0 :
            r \notin {RemoteOf(k) : k \in DOMAIN lmap} =>
                r \in DOMAIN rfs /\ rfs[r] = rfs0[r]

\* ---------------------------------- claims on sync_pull, sync_bidirectional

\* a bidirectional sync has run to its end and the transport failed no call
\* on its own
BidirOver == op = "bidir" /\ pc = "done" /\ ~faulted

\* key k passes the filter, whether the patterns are matched against the
\* basename or the full relative path, or against the basename alone
PassesFilter(k) ==
    Included(k, include, exclude) /\ BasenameIncluded(Basename(k))

\* the keys present on both sides at the scan
OnBoth == DOMAIN lmap \cap DOMAIN rmap

\* C2 as stated, for the keys the filter lets through: after a whole
\* bidirectional sync, a key on both sides whose modification times are within
\* the tolerance still has its local original, has a local conflict copy
\* holding the remote content, was not uploaded, and its local path was not
\* written.
C2_ConflictKeepsBoth ==
    BidirOver =>
        \A k \in OnBoth :
            (PassesFilter(k)
               /\ lmap[k] - rmap[k] <= Tolerance
               /\ rmap[k] - lmap[k] <= Tolerance) =>
                /\ LocalOf(k) \in DOMAIN lfs
                /\ lfs[LocalOf(k)] = lfs0[LocalOf(k)]
                /\ LocalOf(k) \o RemoteSuffix \in DOMAIN lfs
                /\ lfs[LocalOf(k) \o RemoteSuffix] = rfs0[RemoteOf(k)]
                /\ \A i \in issued : ~(i[1] = "upload" /\ i[2] = k)
                /\ LocalOf(k) \notin lwrites

\* C3 as stated, for the keys the filter lets through: after a whole
\* bidirectional sync, a key on both sides was uploaded and the remote holds
\* its local content if the local side was newer beyond the tolerance, was
\* downloaded and the local holds its remote content if the remote side was;
\* and exactly one action was taken for it.
C3_NewerSideWins ==
    BidirOver =>
        \A k \in OnBoth :
            PassesFilter(k) =>
                /\ lmap[k] > rmap[k] + Tolerance =>
                     /\ \E i \in issued : i[1] = "upload" /\ i[2] = k
                     /\ RemoteOf(k) \in DOMAIN rfs
                     /\ rfs[RemoteOf(k)] = lfs0[LocalOf(k)]
                /\ rmap[k] > lmap[k] + Tolerance =>
                     /\ \E i \in issued : i[1] = "download" /\ i[2] = k
                     /\ LocalOf(k) \in DOMAIN lfs
                     /\ lfs[LocalOf(k)] = rfs0[RemoteOf(k)]
                /\ Cardinality({i \in issued : i[2] = k}) = 1

\* the keys a pull or a bidirectional sync has scanned
ScannedKeys ==
    IF op = "pull"
    THEN {RelPath(path, RStripSlash(rroot)) : path \in DOMAIN rmap}
    ELSE DOMAIN lmap \cup DOMAIN rmap

\* C6 as stated: after a whole pull or bidirectional sync, a transfer was
\* started for a scanned key if and only if the key passes the filter that
\* matches a pattern against the basename or the full relative path.
C6_TransferredIffIncluded ==
    (op \in {"pull", "bidir"} /\ pc = "done" /\ ~faulted) =>
        \A k \in ScannedKeys :
            (\E i \in issued : i[2] = k) <=> Included(k, include, exclude)

\* ------------------------------------------------- claims on failing paths

\* the atomic_download of a round trip has ended without its confirmation
DownloadFailed ==
    /\ op = "roundtrip"
    /\ pc \in {"done", "raised"}
    /\ <<"downloaded", dst>> \notin printed

\* C11 as stated: whenever atomic_download has failed, whatever the kind of
\* the failure, the local temporary file is gone, an error was raised to the
\* caller, and the final local path is as it was before the download.
C11_DownloadFailureCleansUp ==
    DownloadFailed =>
        /\ DownloadTmp(dst) \notin DOMAIN lfs
        /\ pc = "raised"
        /\ IF dst \in DOMAIN lfs0
           THEN dst \in DOMAIN lfs /\ lfs[dst] = lfs0[dst]
           ELSE dst \notin DOMAIN lfs

\* C12 as stated, for sync_pull and sync_bidirectional: when the run has
\* ended, however it ended and whichever transfers failed, a transfer was
\* started for every scanned key that the run's filter lets through.
C12_FailureDoesNotAbort ==
    (op \in {"pull", "bidir"} /\ pc \in {"done", "aborted"}) =>
        \A k \in ScannedKeys :
            BasenameIncluded(Basename(k)) => \E i \in issued : i[2] = k

\* the scan of the run meets a directory it cannot enumerate: a remote one,
\* or a local one when the run scans the local tree
ScanFails ==
    \E d \in denied :
        IF StartsWith(d, LocalRoot) THEN op = "bidir" ELSE op \in {"pull", "bidir"}

\* C13 as stated: when a directory of a scanned tree cannot be enumerated, the
\* scan yields no Tree Mapping, not even a partial one, and the sync starts
\* no transfer.
C13_ScanFailureIsFatal ==
    (ScanFails /\ pc # "start") =>
        /\ lmap = NoFiles
        /\ rmap = NoFiles
        /\ issued = {}

\* the single atomic_upload has returned after reporting an error
UploadFailed ==
    /\ UploadReturned
    /\ {<<"error", dst>>, <<"error_perm", dst>>, <<"error_noent", src>>} \cap printed # {}

\* the positions in the call history of the puts of the upload
PutCalls == {i \in 1..Len(calls) : calls[i][1] = "put"}

\* C14 as stated: on every failing exit of atomic_upload a removal of the
\* temporary path was attempted after the put that failed, and when a
\* removal succeeded last no file remains at the temporary path.
C14_UploadFailureRemovesTmp ==
    UploadFailed =>
        LET tmp     == Resolve(UploadTmp(dst))
            removes == {i \in 1..Len(calls) :
                          /\ calls[i][1] = "remove"
                          /\ calls[i][2] = tmp
                          /\ \A j \in PutCalls : j < i}
        IN  /\ removes # {}
            /\ (\E i \in removes : calls[i][3]) => tmp \notin DOMAIN rfs

\* C15 as stated: an atomic_upload that has returned with the new content at
\* the final path has printed its confirmation line, whichever branch it took,
\* and so has an atomic_download that has written its final path.
C15_SuccessIsConfirmed ==
    /\ (UploadReturned
          /\ FromHome(dst) \in DOMAIN rfs
          /\ rfs[FromHome(dst)] = NewContent) =>
            <<"uploaded", dst>> \in printed
    /\ (op = "roundtrip" /\ pc \in {"done", "raised"} /\ dst \in lwrites) =>
            <<"downloaded", dst>> \in printed

\* transfer.py:44  the put into the temporary path is about to be issued
PutStarts == pc = "u_put" /\ off = -1

\* transfer.py:100  the get into the local temporary path is about to be issued
GetStarts == pc = "d_get" /\ off = -1

\* The directories above path p, as the caller of the transfer means them:
\* a relative path counted from the directory the session started in.
AncestorDirs(p) ==
    {FromHome(Parents(p)[i]) : i \in {j \in 1..Len(Parents(p)) : Parents(p)[j] # <<".">>}}

\* transfer.py:32-42  the directory calls atomic_upload has made when the put
\* starts are the probe alone, found, or the probe followed by one mkdir for
\* each prefix of the parent directory, shallowest first
ProbedOrMade ==
    LET remote_dir == Dirname(dst)
    IN  IF remote_dir = <<>> \/ remote_dir = <<".">> THEN calls = <<>>
        ELSE /\ calls # <<>>
             /\ calls[1][1] = "chdir"
             /\ IF calls[1][3] THEN Len(calls) = 1
                ELSE /\ Len(calls) = 1 + Len(PartsPrefixes(remote_dir))
                     /\ \A i \in 1..Len(PartsPrefixes(remote_dir)) :
                          /\ calls[i + 1][1] = "mkdir"
                          /\ calls[i + 1][2] = Resolve(PartsPrefixes(remote_dir)[i])

\* C16: directory creation comes before the transfer.  When the put into the
\* temporary path starts, atomic_upload has probed the parent directory of
\* the target or attempted mkdir on each of its prefixes from the shallowest
\* to the deepest, and (mkdir failing with already-exists only) every
\* ancestor directory of the target exists on the remote side; when the get
\* of atomic_download starts, every ancestor of the local target exists.
C16_DirsBeforeTransfer ==
    /\ PutStarts => /\ ProbedOrMade
                    /\ AncestorDirs(dst) \subseteq rdirs
    /\ GetStarts => \A i \in 1..Len(Parents(dst)) :
                      Parents(dst)[i] = <<".">> \/ Parents(dst)[i] \in ldirs

\* transfer.py:33, 44-62  the paths the calls of the running upload were
\* resolved to are the paths the caller means
ResolvedAsMeant ==
    \A i \in 1..Len(calls) :
      calls[i][1] = "put" => calls[i][2] \in {FromHome(UploadTmp(dst)), FromHome(dst)}

\* C17: changeDirectory is a pure existence probe.  The session, which had
\* no working directory when atomic_upload or the first sync_push was
\* called, has none when the call has returned, and every put of the call
\* was resolved to the path the caller means.
C17_ProbeLeavesCwd ==
    ((UploadReturned \/ (op = "push" /\ run = 1 /\ pc \in {"loop", "done", "aborted"}))
        => cwd = <<>>)
    /\ (op \in {"upload", "roundtrip", "push"} /\ InUpload => ResolvedAsMeant)

\* C18: no data loss on upload.  If the final remote path held a file before
\* atomic_upload, then once atomic_upload is over, whichever of its put,
\* rename and remove calls failed, the final path holds that old file or the
\* whole new file; it is neither absent nor partial.
C18_NoDataLoss ==
    (op \in {"upload", "roundtrip"} /\ (UploadReturned \/ pc = "raised")
        /\ FromHome(dst) \in DOMAIN rfs0)
    => /\ FromHome(dst) \in DOMAIN rfs
       /\ rfs[FromHome(dst)] \in {rfs0[FromHome(dst)], NewContent}

\* the keys the scan of a bidirectional sync found on the local side only
LocalOnly == DOMAIN lmap \ DOMAIN rmap

\* C19: sync_bidirectional never modifies a local file whose key is present
\* only locally.  After a whole run in which the transport failed no call on
\* its own, whatever the two trees and the order of the keys, each such file
\* is there with the content it had before the run.
C19_LocalOnlyUntouched ==
    BidirOver =>
        \A k \in LocalOnly :
            /\ LocalOf(k) \in DOMAIN lfs
            /\ lfs[LocalOf(k)] = lfs0[LocalOf(k)]

\* transfer.py:226  key k, on both sides, has modification times within the
\* tolerance
IsConflict(k) ==
    /\ k \in OnBoth
    /\ lmap[k] - rmap[k] <= Tolerance
    /\ rmap[k] - lmap[k] <= Tolerance

\* transfer.py:219-233  the content sync_bidirectional is to propagate for a
\* key that is no conflict: that of the only side holding it, or of the
\* newer side
WinnerContent(k) ==
    IF k \notin DOMAIN rmap THEN lfs0[LocalOf(k)]
    ELSE IF k \notin DOMAIN lmap THEN rfs0[RemoteOf(k)]
    ELSE IF lmap[k] > rmap[k] THEN lfs0[LocalOf(k)]
    ELSE rfs0[RemoteOf(k)]

\* transfer.py:72-81, 104-114  no transfer of the run has reported an error
NoTransferFailed == \A l \in printed : l[1] \in {"uploaded", "downloaded", "conflict"}

\* C20: convergence of bidirectional sync.  After a whole run in which the
\* transport failed no call on its own and no transfer reported an error,
\* every key of the union of the two
\* mappings that passes the filter and was no conflict is present on both
\* sides with the same content, the content of the side that alone held it
\* or of the newer side.
C20_Converges ==
    (BidirOver /\ NoTransferFailed) =>
        \A k \in DOMAIN lmap \cup DOMAIN rmap :
            (PassesFilter(k) /\ ~IsConflict(k)) =>
                /\ LocalOf(k) \in DOMAIN lfs
                /\ RemoteOf(k) \in DOMAIN rfs
                /\ lfs[LocalOf(k)] = WinnerContent(k)
                /\ rfs[RemoteOf(k)] = WinnerContent(k)

============================================================================
